---- MODULE Spec2Model ----
(***************************************************************************)
(* Model of the similarity-and-clustering engine of                        *)
(* find_similar_documents.py: chunk_text, find_similar_pairs,              *)
(* group_similar_documents and the run of main.                            *)
(*                                                                         *)
(* Conventions                                                             *)
(*  - a text is a sequence of one-character strings;                       *)
(*  - a document name is a number 1..MaxDocs; the numeric order stands for *)
(*    the lexicographic order of the file names (sorted() in the source);  *)
(*  - a similarity is an integer number of units of 1/ScoreOne (with       *)
(*    ScoreOne = 100000, 60000 is 0.6), written Pct(60);                   *)
(*  - an average is an exact fraction <<num, den>> of such units in lowest *)
(*    terms (floating-point rounding is not modelled).                     *)
(***************************************************************************)
EXTENDS Integers, Sequences, FiniteSets, TLC

VARIABLES
    pc,              \* which call is pending, or how it ended
    text, chunk_size, overlap,      \* chunk_text: the arguments
    chunks,          \* chunk_text: the returned list
    spans,           \* chunk_text: start and end at every chunks.append
    doc_names,       \* list(documents.keys()): the documents in load order
    documents,       \* name -> {"text", "type"}
    doc_embeddings,  \* name -> the chunk vectors of the document
    threshold, mode, selected_types,  \* find_similar_pairs: the settings
    scanned,         \* find_similar_pairs: the (name_i, name_j) the loops visit
    similar_pairs,   \* the retained pairs
    clusters,        \* group_similar_documents: the returned list
    extracted,       \* main: the folder extracted_text and its .txt files
    metadata,        \* main: metadata.json, name -> entry ({} without the file)
    choice,          \* main: the answer to "Choose mode (1/2/3)"
    type_input,      \* main: the answer to "Enter types to compare"
    provider,        \* main: how the embedding provider behaves in this run
    doc_chunks,      \* main: name -> the chunks of the document
    calls,           \* main: the stages invoked so far, in order
    report           \* main: what was written to results.json, None if nothing

chunkVars == <<text, chunk_size, overlap, chunks, spans>>
docVars == <<doc_names, documents, doc_embeddings, threshold, mode, selected_types>>
mainVars == <<extracted, metadata, choice, type_input, provider, doc_chunks, calls, report>>
vars == <<pc, chunkVars, docVars, scanned, similar_pairs, clusters, mainVars>>

(***************************************************************************)
(* Bounds                                                                  *)
(***************************************************************************)
MaxTextLen == 9
MaxChunkSize == 4
MaxDocs == 3
MaxPairs == 3

Min(a, b) == IF a <= b THEN a ELSE b

\* the float 1.0 in the units of the model
ScoreOne == 100000

\* the float p / 100 in the units of the model
Pct(p) == (p * ScoreOne) \div 100

(***************************************************************************)
(* Strings                                                                 *)
(***************************************************************************)
Chars == {"a", " "}

IsSpace(c) == c = " "

RECURSIVE SplitFrom(_, _, _, _)
SplitFrom(s, i, cur, acc) ==
    IF i > Len(s)
    THEN IF cur = <<>> THEN acc ELSE Append(acc, cur)
    ELSE IF IsSpace(s[i])
         THEN SplitFrom(s, i + 1, <<>>, IF cur = <<>> THEN acc ELSE Append(acc, cur))
         ELSE SplitFrom(s, i + 1, Append(cur, s[i]), acc)

\* str.split() without arguments: the maximal runs of non-whitespace
Split(s) == SplitFrom(s, 1, <<>>, <<>>)

RECURSIVE Join(_)
\* " ".join(ws)
Join(ws) ==
    IF ws = <<>> THEN <<>>
    ELSE IF Len(ws) = 1 THEN ws[1]
    ELSE ws[1] \o <<" ">> \o Join(Tail(ws))

\* the Python slice ws[start:end] for 0 <= start
Slice(ws, start, end) == SubSeq(ws, start + 1, Min(end, Len(ws)))

(***************************************************************************)
(* chunk_text                                                              *)
(***************************************************************************)
\* the value standing for a call that never returns
NoReturn == <<<<"no return">>>>

RECURSIVE ChunkWindowsMutNoOverlap(_, _, _, _, _)
ChunkWindowsMutNoOverlap(words, size, olap, start, acc) ==
    IF start < Len(words)
    THEN ChunkWindowsMutNoOverlap(words, size, olap, start + size,
                    Append(acc, [start |-> start, end |-> start + size]))
    ELSE acc

RECURSIVE ChunkWindowsMutDropShortTail(_, _, _, _, _)
ChunkWindowsMutDropShortTail(words, size, olap, start, acc) ==
    IF start + size <= Len(words)
    THEN ChunkWindowsMutDropShortTail(words, size, olap, start + size - olap,
                    Append(acc, [start |-> start, end |-> start + size]))
    ELSE acc

RECURSIVE ChunkWindows(_, _, _, _, _)
\* the while loop: the values of start and end at every chunks.append
ChunkWindows(words, size, olap, start, acc) ==
    IF start < Len(words)
    THEN ChunkWindows(words, size, olap, start + size - olap,
                    Append(acc, [start |-> start, end |-> start + size]))
    ELSE acc

\* the loop is left only when start reaches len(words); with a step
\* chunk_size - overlap <= 0 and start = 0 < len(words) it never is
LoopTerminates(words, size, olap) == Len(words) = 0 \/ size - olap > 0

SingleChunkMutJoin(t, words) == <<Join(words)>>

\* return [text]
SingleChunk(t, words) == <<t>>

\* does chunk_text(t, size, olap) return
Returns(t, size, olap) ==
    Len(Split(t)) <= size \/ LoopTerminates(Split(t), size, olap)

chunk_text_windows(t, size, olap) ==
    LET words == Split(t)
    IN  IF Len(words) <= size \/ ~LoopTerminates(words, size, olap) THEN <<>>
        ELSE ChunkWindows(words, size, olap, 0, <<>>)

chunk_text(t, size, olap) ==
    LET words == Split(t)
        wins == chunk_text_windows(t, size, olap)
    IN  IF Len(words) <= size THEN SingleChunk(t, words)
        ELSE IF ~LoopTerminates(words, size, olap) THEN NoReturn
        ELSE [k \in 1..Len(wins) |-> Join(Slice(words, wins[k].start, wins[k].end))]

(***************************************************************************)
(* Specification SpecChunk: chunk_text applied to bounded inputs           *)
(***************************************************************************)
Texts == UNION {[1..n -> Chars] : n \in 0..MaxTextLen}

None == "None"

NoChunkCall ==
    /\ text = <<>> /\ chunk_size = 0 /\ overlap = 0 /\ chunks = <<>> /\ spans = <<>>

NoDocuments ==
    /\ doc_names = <<>> /\ documents = <<>> /\ doc_embeddings = <<>>
    /\ threshold = 0 /\ mode = None /\ selected_types = None
    /\ scanned = <<>>

\* there is no folder extracted_text
NoFolder == [exists |-> FALSE, names |-> <<>>, docs |-> <<>>]

\* main is not running
NoMain ==
    /\ extracted = NoFolder /\ metadata = <<>> /\ choice = None /\ type_input = <<>>
    /\ provider = None /\ doc_chunks = <<>> /\ calls = <<>> /\ report = None

InitChunk ==
    /\ pc = "chunk_text"
    /\ text \in Texts
    /\ chunk_size \in 1..MaxChunkSize
    /\ overlap \in 0..MaxChunkSize
    /\ chunks = <<>>
    /\ spans = <<>>
    /\ NoDocuments
    /\ similar_pairs = <<>>
    /\ clusters = <<>>
    /\ NoMain

CallChunkText ==
    /\ pc = "chunk_text"
    /\ chunks' = chunk_text(text, chunk_size, overlap)
    /\ spans' = chunk_text_windows(text, chunk_size, overlap)
    /\ pc' = IF Returns(text, chunk_size, overlap) THEN "returned" ELSE "hung"
    /\ UNCHANGED <<text, chunk_size, overlap, docVars, scanned, similar_pairs, clusters, mainVars>>

NextChunk == CallChunkText

SpecChunk == InitChunk /\ [][NextChunk]_vars

(***************************************************************************)
(* Properties of chunk_text (checked under SpecChunk)                      *)
(***************************************************************************)
WordsOfText == Split(text)

\* the 1-based word positions chunk k is made of: the window of the k-th
\* append, cut at the end of the text; all words for the unsplit text
SpanOf(k) ==
    IF spans = <<>> THEN 1..Len(WordsOfText)
    ELSE {i \in 1..Len(WordsOfText) : spans[k].start < i /\ i <= spans[k].end}

\* chunk k consists of the words of its span, in order
ChunkIsItsSpan(k) ==
    LET lo == IF spans = <<>> THEN 1 ELSE spans[k].start + 1
        hi == IF spans = <<>> THEN Len(WordsOfText) ELSE Min(spans[k].end, Len(WordsOfText))
    IN  Split(chunks[k]) = SubSeq(WordsOfText, lo, hi)

SharedWords(k) == Cardinality(SpanOf(k) \cap SpanOf(k + 1))

ChunksCoverText ==
    /\ \A k \in 1..Len(chunks) : ChunkIsItsSpan(k)
    /\ \A i \in 1..Len(WordsOfText) : \E k \in 1..Len(chunks) : i \in SpanOf(k)

\* C9 (as stated): for 0 <= O < S the chunks' word spans cover all W words and
\* every two consecutive chunks share exactly O words, except possibly the
\* final chunk and its predecessor.
C9_CoverageAndOverlapAsStated ==
    (pc = "returned" /\ overlap < chunk_size) =>
        /\ ChunksCoverText
        /\ \A k \in 1..(Len(chunks) - 2) : SharedWords(k) = overlap

\* C9 (amended): for 0 <= O < S the chunks' word spans cover all W words and
\* two consecutive chunks share exactly O words whenever the earlier of the
\* two holds a full S words; a pair whose earlier chunk was cut short by the
\* end of the text shares fewer, and such a pair need not contain the final
\* chunk.
C9_CoverageAndOverlapOfFullChunks ==
    (pc = "returned" /\ overlap < chunk_size) =>
        /\ ChunksCoverText
        /\ \A k \in 1..(Len(chunks) - 1) :
              /\ Len(Split(chunks[k])) = chunk_size => SharedWords(k) = overlap
              /\ Len(Split(chunks[k])) < chunk_size => SharedWords(k) < overlap

\* a text split with a positive overlap in which a chunk that is neither the
\* last nor the last but one was cut short
C9_Witness ==
    /\ pc = "returned"
    /\ 0 < overlap /\ overlap < chunk_size
    /\ Len(chunks) >= 3
    /\ \E k \in 1..(Len(chunks) - 2) : Len(Split(chunks[k])) < chunk_size
    /\ \E k \in 1..(Len(chunks) - 1) : Len(Split(chunks[k])) = chunk_size

\* C10: a text of at most chunk_size words comes back as exactly one chunk,
\* the text itself, character for character; the empty text gives <<"">>.
C10_SingleChunkIdentity ==
    (pc # "chunk_text" /\ Len(WordsOfText) <= chunk_size) =>
        /\ pc = "returned"
        /\ chunks = <<text>>
        /\ Len(chunks) = 1

\* a short text whose whitespace is not what " ".join would write
C10_Witness ==
    /\ pc = "returned"
    /\ Len(WordsOfText) >= 2
    /\ Len(WordsOfText) <= chunk_size
    /\ text # Join(WordsOfText)
    /\ chunks = <<text>>

\* C11: a call with overlap >= chunk_size is rejected before any work: it
\* ends as "rejected", neither returning a chunk sequence nor running the
\* loop without end.
C11_OverlapNotBelowChunkSizeRejected ==
    overlap >= chunk_size =>
        /\ pc \in {"chunk_text", "rejected"}
        /\ chunks = <<>>

\* the least integer not below a / b, for b > 0
Ceil(a, b) == (a + b - 1) \div b

\* C25: for a text of W words with W > S and 0 <= O < S, chunk_text returns,
\* with exactly ceil(W / (S - O)) chunks; chunk k (counted from 0) is the
\* words k*(S-O) up to but excluding min(k*(S-O)+S, W) joined with single
\* spaces, so every chunk has between 1 and S words and the window of the
\* last chunk starts below W.
C25_WindowCountAndContents ==
    LET words == Split(text)
        W == Len(words)
        step == chunk_size - overlap
    IN  (pc # "chunk_text" /\ W > chunk_size /\ overlap < chunk_size) =>
            /\ pc = "returned"
            /\ Len(chunks) = Ceil(W, step)
            /\ \A k \in 0..(Len(chunks) - 1) :
                  /\ chunks[k + 1]
                        = Join(SubSeq(words, k * step + 1, Min(k * step + chunk_size, W)))
                  /\ Len(Split(chunks[k + 1])) \in 1..chunk_size
            /\ (Len(chunks) - 1) * step < W

\* a call with a positive overlap below the chunk size that returns three or
\* more chunks, the last of them cut short by the end of the text
C25_Witness ==
    /\ pc = "returned"
    /\ Len(Split(text)) > chunk_size
    /\ overlap > 0
    /\ overlap < chunk_size
    /\ Len(chunks) >= 3
    /\ Len(Split(chunks[Len(chunks)])) < chunk_size
    /\ \E k \in 1..Len(chunks) : Len(Split(chunks[k])) = chunk_size /\ chunk_size >= 2

(***************************************************************************)
(* find_similar_pairs                                                      *)
(***************************************************************************)
\* the source types of the modelled corpus (SOURCE_FOLDERS has four tags;
\* get_source_type adds "unknown")
Types == {"docx", "pdf", "unknown"}

\* what a document can hold: its text and the vectors of its chunks (vectors
\* of Euclidean norm 5, whose cosines are whole hundredths: two documents
\* score 0, 0.6, 0.8 or 1.0)
Contents ==
    { [text |-> <<"a">>, emb |-> << <<5, 0>> >>],
      [text |-> <<"a", "a">>, emb |-> << <<0, 5>> >>],
      [text |-> <<"a", " ", "a">>, emb |-> << <<3, 4>>, <<-5, 0>> >>] }

PreviewLen == 100

Range(f) == {f[i] : i \in DOMAIN f}

Dot(u, v) == u[1] * v[1] + u[2] * v[2]

Abs(x) == IF x < 0 THEN -x ELSE x

\* the Euclidean norm of a modelled vector (a whole number, at most the sum
\* of the magnitudes of its entries)
Norm(u) == CHOOSE n \in 0..(Abs(u[1]) + Abs(u[2])) : n * n = Dot(u, u)

\* (u.v) / (|u| |v|), given u.v and |u| |v|; sklearn normalises a zero
\* vector to itself, so its cosines are 0
Quotient(dot, norms) == IF norms = 0 THEN 0 ELSE (ScoreOne * dot) \div norms

\* one entry of sklearn's cosine_similarity
Cosine(u, v) == Quotient(Dot(u, v), Norm(u) * Norm(v))

\* cosine_similarity(X, Y): the m x n matrix of the chunk cosines
cosine_similarity(X, Y) ==
    [i \in 1..Len(X) |-> [j \in 1..Len(Y) |-> Cosine(X[i], Y[j])]]

RECURSIVE MaxFrom(_, _, _)
MaxFrom(q, k, best) ==
    IF k > Len(q) THEN best
    ELSE MaxFrom(q, k + 1, IF q[k] > best THEN q[k] ELSE best)

RECURSIVE Flatten(_, _, _)
Flatten(M, i, acc) == IF i > Len(M) THEN acc ELSE Flatten(M, i + 1, acc \o M[i])

MatrixMaxMutLastEntry(M) == M[Len(M)][Len(M[1])]

\* np.max(sim_matrix): the largest entry of a matrix with at least one entry
MatrixMax(M) == MaxFrom(Flatten(M, 1, <<>>), 2, M[1][1])

\* bool(selected_types): None and the empty list are false
Truthy(sel) == sel # None /\ sel # <<>>

ModeSkipsMutAnyType(m, sel, type_i, type_j) ==
    m = "select" /\ Truthy(sel) /\
        (type_i \notin Range(sel) \/ type_j \notin Range(sel) \/ type_i = type_j)

\* the two mode filters: TRUE when the pair is passed over (continue)
ModeSkips(m, sel, type_i, type_j) ==
    \/ m = "same_type" /\ type_i # type_j
    \/ m = "select" /\ Truthy(sel) /\
        (type_i \notin Range(sel) \/ type_j \notin Range(sel) \/ type_i = type_j)

RetainsMutStrict(max_sim, thr) == max_sim > thr

\* if max_sim >= threshold
Retains(max_sim, thr) == max_sim >= thr

RECURSIVE IndexPairs(_, _, _, _)
\* for i in range(n): for j in range(i+1, n): the (i, j) in loop order
IndexPairs(n, i, j, acc) ==
    IF i >= n THEN acc
    ELSE IF j >= n THEN IndexPairs(n, i + 1, i + 2, acc)
    ELSE IndexPairs(n, i, j + 1, Append(acc, <<i, j>>))

FirstJMutFromI(i) == i

\* the first j of the inner loop, range(i+1, len(doc_names))
FirstJ(i) == i + 1

\* max_sim of a pair of documents
DocSimilarityMutLastRow(emb, name_i, name_j) ==
    LET M == cosine_similarity(emb[name_i], emb[name_j])
    IN  MatrixMax(<<M[Len(M)]>>)

DocSimilarity(emb, name_i, name_j) ==
    MatrixMax(cosine_similarity(emb[name_i], emb[name_j]))

PairRecord(docs, name_i, name_j, max_sim) ==
    [doc1 |-> name_i, doc2 |-> name_j,
     type1 |-> docs[name_i].type, type2 |-> docs[name_j].type,
     similarity |-> max_sim,
     preview1 |-> Slice(docs[name_i].text, 0, PreviewLen),
     preview2 |-> Slice(docs[name_j].text, 0, PreviewLen)]

\* the body of the inner loop for the documents name_i and name_j: the
\* retained list afterwards
ScanBody(emb, docs, thr, m, sel, name_i, name_j, pairs) ==
    IF ModeSkips(m, sel, docs[name_i].type, docs[name_j].type) THEN pairs
    ELSE LET max_sim == DocSimilarity(emb, name_i, name_j)
         IN  IF Retains(max_sim, thr)
             THEN Append(pairs, PairRecord(docs, name_i, name_j, max_sim))
             ELSE pairs

RECURSIVE ScanLoop(_, _, _, _, _, _, _, _, _)
\* the two loops of lines 60-88 from (i, j) on; st holds the (name_i, name_j)
\* visited so far and the pairs retained so far
ScanLoop(emb, docs, names, thr, m, sel, i, j, st) ==
    IF i >= Len(names) THEN st
    ELSE IF j >= Len(names)
         THEN ScanLoop(emb, docs, names, thr, m, sel, i + 1, FirstJ(i + 1), st)
         ELSE ScanLoop(emb, docs, names, thr, m, sel, i, j + 1,
                [scanned |-> Append(st.scanned, <<names[i + 1], names[j + 1]>>),
                 pairs |-> ScanBody(emb, docs, thr, m, sel,
                                    names[i + 1], names[j + 1], st.pairs)])

ScanAll(emb, docs, names, thr, m, sel) ==
    ScanLoop(emb, docs, names, thr, m, sel, 0, FirstJ(0),
             [scanned |-> <<>>, pairs |-> <<>>])

\* the mapping documents once find_similar_pairs has returned: lines 65-66
\* and 86-87 read documents[name] and nothing in lines 55-90 assigns to it
DocumentsAfterScan(docs) == docs

\* the mapping doc_embeddings once find_similar_pairs has returned: lines 58
\* and 75 read it and nothing assigns to it
EmbeddingsAfterScan(emb) == emb

find_similar_pairs(emb, docs, names, thr, m, sel) ==
    ScanAll(emb, docs, names, thr, m, sel).pairs

(***************************************************************************)
(* Specification SpecPairs: find_similar_pairs applied to bounded inputs   *)
(***************************************************************************)

\* the key lists of the documents dict: the names 1..n in the order the
\* directory listing gave them, here ascending or descending
NameLists ==
    UNION {{[k \in 1..n |-> k], [k \in 1..n |-> n + 1 - k]} : n \in 0..MaxDocs}

\* threshold: main passes 0.6, the default
Thresholds == {Pct(60)}

Modes == {"all", "same_type", "select"}

\* selected_types: the default None, or a list of type names
Selections ==
    {None, <<>>, <<"docx", "pdf">>, <<"docx", "pdf", "unknown">>}

InitPairs ==
    /\ pc = "find_similar_pairs"
    /\ NoChunkCall
    /\ doc_names \in NameLists
    /\ \E ty \in [Range(doc_names) -> Types], co \in [Range(doc_names) -> Contents] :
          /\ documents = [d \in Range(doc_names) |-> [text |-> co[d].text, type |-> ty[d]]]
          /\ doc_embeddings = [d \in Range(doc_names) |-> co[d].emb]
    /\ threshold \in Thresholds
    /\ mode \in Modes
    /\ selected_types \in (IF mode = "select" THEN Selections ELSE {None})
    /\ scanned = <<>>
    /\ similar_pairs = <<>>
    /\ clusters = <<>>
    /\ NoMain

CallFindSimilarPairs ==
    /\ pc = "find_similar_pairs"
    /\ LET done == ScanAll(doc_embeddings, documents, doc_names,
                            threshold, mode, selected_types)
       IN  /\ scanned' = done.scanned
           /\ similar_pairs' = done.pairs
    /\ documents' = DocumentsAfterScan(documents)
    /\ doc_embeddings' = EmbeddingsAfterScan(doc_embeddings)
    /\ pc' = "returned"
    /\ UNCHANGED <<chunkVars, doc_names, threshold, mode, selected_types, clusters,
                   mainVars>>

NextPairs == CallFindSimilarPairs

SpecPairs == InitPairs /\ [][NextPairs]_vars

(***************************************************************************)
(* group_similar_documents                                                 *)
(***************************************************************************)
RECURSIVE GCD(_, _)
GCD(a, b) == IF b = 0 THEN a ELSE GCD(b, a % b)

\* the exact quotient n / d (d > 0) as a fraction in lowest terms
Frac(n, d) == <<n \div GCD(n, d), d \div GCD(n, d)>>

FracLess(x, y) == x[1] * y[2] < y[1] * x[2]

RECURSIVE SumSeq(_)
SumSeq(q) == IF q = <<>> THEN 0 ELSE Head(q) + SumSeq(Tail(q))

MaxSeq(q) == CHOOSE x \in Range(q) : \A y \in Range(q) : y <= x

RECURSIVE InsertAsc(_, _)
InsertAsc(q, x) ==
    IF q = <<>> THEN <<x>>
    ELSE IF x < Head(q) THEN <<x>> \o q
    ELSE <<Head(q)>> \o InsertAsc(Tail(q), x)

RECURSIVE sorted(_)
\* sorted(list) of names
sorted(q) == IF q = <<>> THEN <<>> ELSE InsertAsc(sorted(SubSeq(q, 1, Len(q) - 1)), q[Len(q)])

\* the orders in which a set can be iterated
Perms(S) == {q \in [1..Cardinality(S) -> S] : Range(q) = S}

\* lines 108-111
all_docs(pairs) ==
    {pairs[k].doc1 : k \in DOMAIN pairs} \cup {pairs[k].doc2 : k \in DOMAIN pairs}

findMutOneStep(parent, x) == [root |-> parent[x], parent |-> parent]

RECURSIVE find(_, _)
\* find(x): the root of x and the parent map after path compression
find(parent, x) ==
    IF parent[x] # x
    THEN LET r == find(parent, parent[x])
         IN  [root |-> r.root, parent |-> [r.parent EXCEPT ![x] = r.root]]
    ELSE [root |-> x, parent |-> parent]

unionMutLinksB(parent, a, b) ==
    LET fa == find(parent, a)
        fb == find(fa.parent, b)
    IN  IF fa.root # fb.root
        THEN [fb.parent EXCEPT ![b] = fa.root]
        ELSE fb.parent

unionMutLinksA(parent, a, b) ==
    LET fa == find(parent, a)
        fb == find(fa.parent, b)
    IN  IF fa.root # fb.root
        THEN [fb.parent EXCEPT ![a] = fb.root]
        ELSE fb.parent

\* union(a, b): the parent map afterwards
union(parent, a, b) ==
    LET fa == find(parent, a)
        fb == find(fa.parent, b)
    IN  IF fa.root # fb.root
        THEN [fb.parent EXCEPT ![fb.root] = fa.root]
        ELSE fb.parent

RECURSIVE MergeAll(_, _, _)
\* lines 116-117
MergeAll(parent, pairs, k) ==
    IF k > Len(pairs) THEN parent
    ELSE MergeAll(union(parent, pairs[k].doc1, pairs[k].doc2), pairs, k + 1)

\* clusters[root].append(doc), creating the entry at the end of the dict
AddToCluster(dict, root, doc) ==
    IF \E n \in DOMAIN dict : dict[n].root = root
    THEN [n \in DOMAIN dict |->
            IF dict[n].root = root
            THEN [dict[n] EXCEPT !.members = Append(@, doc)]
            ELSE dict[n]]
    ELSE Append(dict, [root |-> root, members |-> <<doc>>])

RECURSIVE BuildClusters(_, _, _, _)
\* lines 120-125: the clusters dict as its items in insertion order
BuildClusters(parent, order, k, dict) ==
    IF k > Len(order) THEN dict
    ELSE LET f == find(parent, order[k])
         IN  BuildClusters(f.parent, order, k + 1, AddToCluster(dict, f.root, order[k]))

\* tuple(sorted([a, b]))
PairKey(a, b) == IF a <= b THEN <<a, b>> ELSE <<b, a>>

\* lines 128-131: a later entry for the same key overwrites an earlier one
pair_lookup(pairs) ==
    LET keys == {PairKey(pairs[k].doc1, pairs[k].doc2) : k \in DOMAIN pairs}
        last(key) == CHOOSE k \in DOMAIN pairs :
                        /\ PairKey(pairs[k].doc1, pairs[k].doc2) = key
                        /\ \A l \in DOMAIN pairs :
                              PairKey(pairs[l].doc1, pairs[l].doc2) = key => l <= k
    IN  [key \in keys |-> pairs[last(key)].similarity]

RECURSIVE ClusterSimsMutZeroForMissing(_, _, _, _, _)
ClusterSimsMutZeroForMissing(members, lookup, ij, k, sims) ==
    IF k > Len(ij) THEN sims
    ELSE LET key == PairKey(members[ij[k][1] + 1], members[ij[k][2] + 1])
         IN  ClusterSimsMutZeroForMissing(members, lookup, ij, k + 1,
                IF key \in DOMAIN lookup THEN Append(sims, lookup[key]) ELSE Append(sims, 0))

RECURSIVE ClusterSims(_, _, _, _, _)
\* lines 139-144: the scores of the member pairs that are in pair_lookup
ClusterSims(members, lookup, ij, k, sims) ==
    IF k > Len(ij) THEN sims
    ELSE LET key == PairKey(members[ij[k][1] + 1], members[ij[k][2] + 1])
         IN  ClusterSims(members, lookup, ij, k + 1,
                IF key \in DOMAIN lookup THEN Append(sims, lookup[key]) ELSE sims)

KeepsClusterMutAll(members) == TRUE

\* if len(members) < 2: continue
KeepsCluster(members) == ~(Len(members) < 2)

ClusterRecordMutAverageOverMembers(members, lookup) ==
    LET sims == ClusterSims(members, lookup,
                            IndexPairs(Len(members), 0, 1, <<>>), 1, <<>>)
    IN  [members |-> sorted(members),
         size |-> Len(members),
         avg_similarity |-> IF sims # <<>> THEN Frac(SumSeq(sims), Len(members)) ELSE <<0, 1>>,
         max_similarity |-> IF sims # <<>> THEN MaxSeq(sims) ELSE 0]

\* lines 138-152
ClusterRecord(members, lookup) ==
    LET sims == ClusterSims(members, lookup,
                            IndexPairs(Len(members), 0, 1, <<>>), 1, <<>>)
    IN  [members |-> sorted(members),
         size |-> Len(members),
         avg_similarity |-> IF sims # <<>> THEN Frac(SumSeq(sims), Len(sims)) ELSE <<0, 1>>,
         max_similarity |-> IF sims # <<>> THEN MaxSeq(sims) ELSE 0]

RECURSIVE FormatClusters(_, _, _, _)
\* lines 134-153
FormatClusters(dict, lookup, n, result) ==
    IF n > Len(dict) THEN result
    ELSE IF ~KeepsCluster(dict[n].members)
         THEN FormatClusters(dict, lookup, n + 1, result)
         ELSE FormatClusters(dict, lookup, n + 1,
                             Append(result, ClusterRecord(dict[n].members, lookup)))

KeyLessMutAverageOnly(x, y) == FracLess(x.avg_similarity, y.avg_similarity)

\* the sort key (size, avg_similarity) of x is below that of y
KeyLess(x, y) ==
    \/ x.size < y.size
    \/ x.size = y.size /\ FracLess(x.avg_similarity, y.avg_similarity)

RECURSIVE InsertDesc(_, _)
InsertDesc(q, x) ==
    IF q = <<>> THEN <<x>>
    ELSE IF KeyLess(Head(q), x) THEN <<x>> \o q
    ELSE <<Head(q)>> \o InsertDesc(Tail(q), x)

RECURSIVE SortClusters(_)
\* result.sort(key=(size, avg_similarity), reverse=True): stable, so
\* clusters with equal keys stay in the order they had
SortClusters(q) ==
    IF q = <<>> THEN <<>>
    ELSE InsertDesc(SortClusters(SubSeq(q, 1, Len(q) - 1)), q[Len(q)])

\* lines 108-117: the parent map after all unions
MergedParent(pairs) == MergeAll([d \in all_docs(pairs) |-> d], pairs, 1)

\* lines 120-157, given the parent map and the lookup of lines 128-131
ClustersOf(parent, lookup, order) ==
    SortClusters(FormatClusters(BuildClusters(parent, order, 1, <<>>), lookup, 1, <<>>))

PairsAfterGroupingMutConsumed(pairs) == <<>>

\* the list similar_pairs once group_similar_documents has returned: the
\* loops of lines 108, 116 and 129 iterate over it and nothing in lines
\* 92-157 appends to it, removes from it or assigns to a pair
PairsAfterGrouping(pairs) == pairs

\* group_similar_documents(similar_pairs); order is the order in which the
\* set all_docs is iterated, which the language leaves open
group_similar_documents(pairs, order) ==
    ClustersOf(MergedParent(pairs), pair_lookup(pairs), order)

(***************************************************************************)
(* Specification SpecGroup: group_similar_documents applied to bounded     *)
(* lists of pair records.  The function takes any list; the lists main     *)
(* passes come from find_similar_pairs and are WellFormedPairs.            *)
(***************************************************************************)
GroupDocs == {1, 2, 3, 4}

GroupCorpus == [d \in GroupDocs |-> [text |-> <<"a">>, type |-> "docx"]]

\* the scores of the corpus: one score per two documents (0.9 or 0.8)
GroupScore(a, b) == IF {a, b} \in {{1, 2}, {3, 4}, {2, 4}} THEN Pct(90) ELSE Pct(80)

\* the score of a document compared with itself
SelfScore == Cosine(<<5, 0>>, <<5, 0>>)

\* the entries a list can hold: a pair of different documents, written
\* either way round, or the degenerate entry of document 1 with itself
PairEntries ==
    { PairRecord(GroupCorpus, ab[1], ab[2], GroupScore(ab[1], ab[2])) :
        ab \in {xy \in GroupDocs \X GroupDocs : xy[1] # xy[2]} }
    \cup { PairRecord(GroupCorpus, 1, 1, SelfScore) }

\* no two entries are for the same two documents
NoRepeatedPair(pairs) ==
    \A k, l \in DOMAIN pairs :
        k # l => {pairs[k].doc1, pairs[k].doc2} # {pairs[l].doc1, pairs[l].doc2}

InitGroup ==
    /\ pc = "group_similar_documents"
    /\ NoChunkCall
    /\ NoDocuments
    /\ similar_pairs \in UNION {[1..n -> PairEntries] : n \in 0..MaxPairs}
    /\ NoRepeatedPair(similar_pairs)
    /\ clusters = <<>>
    /\ NoMain

CallGroupSimilarDocuments ==
    /\ pc = "group_similar_documents"
    /\ LET parent == MergedParent(similar_pairs)
           lookup == pair_lookup(similar_pairs)
       IN  \E order \in Perms(all_docs(similar_pairs)) :
              clusters' = ClustersOf(parent, lookup, order)
    /\ similar_pairs' = PairsAfterGrouping(similar_pairs)
    /\ pc' = "returned"
    /\ UNCHANGED <<chunkVars, docVars, scanned, mainVars>>

NextGroup == CallGroupSimilarDocuments

SpecGroup == InitGroup /\ [][NextGroup]_vars

(***************************************************************************)
(* Properties of group_similar_documents (checked under SpecGroup)         *)
(***************************************************************************)
\* what find_similar_pairs hands over: no entry pairs a document with
\* itself and no two entries are for the same two documents
WellFormedPairs(pairs) ==
    /\ \A k \in DOMAIN pairs : pairs[k].doc1 # pairs[k].doc2
    /\ NoRepeatedPair(pairs)

\* the documents one retained pair away from a document of S
Neighbours(pairs, S) ==
    {pairs[k].doc2 : k \in {l \in DOMAIN pairs : pairs[l].doc1 \in S}}
        \cup {pairs[k].doc1 : k \in {l \in DOMAIN pairs : pairs[l].doc2 \in S}}

RECURSIVE Linked(_, _)
\* the documents linked to S by a chain of retained pairs
Linked(pairs, S) ==
    IF Neighbours(pairs, S) \subseteq S THEN S
    ELSE Linked(pairs, S \cup Neighbours(pairs, S))

\* the connected components with at least two documents
Components(pairs) ==
    {c \in {Linked(pairs, {d}) : d \in all_docs(pairs)} : Cardinality(c) >= 2}

MemberSets(cl) == {Range(cl[n].members) : n \in DOMAIN cl}

\* the endpoints of the retained pairs between two different documents
PairedDocs(pairs) ==
    UNION {{pairs[k].doc1, pairs[k].doc2} :
              k \in {l \in DOMAIN pairs : pairs[l].doc1 # pairs[l].doc2}}

\* C1: the reported clusters are exactly the connected components of size
\* >= 2 of the graph of the retained pairs (two documents share a cluster
\* iff a chain of retained pairs links them), and every endpoint of a
\* retained pair is a member of exactly one reported cluster.
C1_ClustersAreConnectedComponents ==
    pc = "returned" =>
        /\ MemberSets(clusters) = Components(similar_pairs)
        /\ \A a, b \in all_docs(similar_pairs) :
              a # b =>
                ((\E n \in DOMAIN clusters : {a, b} \subseteq Range(clusters[n].members))
                    <=> b \in Linked(similar_pairs, {a}))
        /\ \A d \in PairedDocs(similar_pairs) :
              Cardinality({n \in DOMAIN clusters :
                              \E m \in DOMAIN clusters[n].members :
                                  clusters[n].members[m] = d}) = 1
        /\ \A n \in DOMAIN clusters :
              Cardinality(Range(clusters[n].members)) = Len(clusters[n].members)

\* a cluster of three documents two of which have no retained pair
C1_Witness ==
    /\ pc = "returned"
    /\ WellFormedPairs(similar_pairs)
    /\ \E n \in DOMAIN clusters :
          /\ Len(clusters[n].members) = 3
          /\ \E a, b \in Range(clusters[n].members) :
                a # b /\ PairKey(a, b) \notin DOMAIN pair_lookup(similar_pairs)

\* the entries of the list with both documents in the set S
PairsInside(pairs, S) ==
    {k \in DOMAIN pairs : pairs[k].doc1 \in S /\ pairs[k].doc2 \in S}

RECURSIVE SumOver(_, _)
SumOver(pairs, K) ==
    IF K = {} THEN 0
    ELSE LET k == CHOOSE x \in K : TRUE
         IN  pairs[k].similarity + SumOver(pairs, K \ {k})

\* C2: avg_similarity is the mean and max_similarity the maximum of the
\* scores of exactly the retained pairs with both documents in the cluster;
\* member pairs without a retained pair are not counted as 0.
C2_ClusterAverageAndMaximum ==
    (pc = "returned" /\ WellFormedPairs(similar_pairs)) =>
        \A n \in DOMAIN clusters :
            LET K == PairsInside(similar_pairs, Range(clusters[n].members))
            IN  /\ K # {}
                /\ clusters[n].avg_similarity[1] * Cardinality(K)
                      = SumOver(similar_pairs, K) * clusters[n].avg_similarity[2]
                /\ \E k \in K : similar_pairs[k].similarity = clusters[n].max_similarity
                /\ \A k \in K : similar_pairs[k].similarity <= clusters[n].max_similarity
                /\ Cardinality(K) = 1 =>
                      /\ clusters[n].avg_similarity[2] = 1
                      /\ clusters[n].avg_similarity[1] = clusters[n].max_similarity

\* the cluster {A, B, C} of the retained scores 0.9 and 0.8: average 0.85
C2_Witness ==
    /\ pc = "returned"
    /\ WellFormedPairs(similar_pairs)
    /\ Len(similar_pairs) = 2
    /\ {similar_pairs[1].similarity, similar_pairs[2].similarity} = {Pct(80), Pct(90)}
    /\ Len(clusters) = 1
    /\ clusters[1].size = 3
    /\ clusters[1].avg_similarity = <<Pct(85), 1>>
    /\ clusters[1].max_similarity = Pct(90)

\* C3: no reported cluster has fewer than 2 members, and every member of a
\* reported cluster is an endpoint of a retained pair with another document.
C3_NoSingletonClusters ==
    pc = "returned" =>
        \A n \in DOMAIN clusters :
            /\ Len(clusters[n].members) >= 2
            /\ Cardinality(Range(clusters[n].members)) >= 2
            /\ clusters[n].size >= 2
            /\ Range(clusters[n].members) \subseteq PairedDocs(similar_pairs)

\* a list in which a document stands alone in its union-find set (its only
\* entry pairs it with itself) next to a cluster that is reported
C3_Witness ==
    /\ pc = "returned"
    /\ clusters # <<>>
    /\ \E d \in all_docs(similar_pairs) :
          /\ Linked(similar_pairs, {d}) = {d}
          /\ \A n \in DOMAIN clusters : d \notin Range(clusters[n].members)

\* the list with entries k and k+1 exchanged
SwapAdjacent(pairs, k) ==
    [l \in DOMAIN pairs |->
        IF l = k THEN pairs[k + 1] ELSE IF l = k + 1 THEN pairs[k] ELSE pairs[l]]

\* the list with entry k written the other way round
FlipEntry(pairs, k) ==
    [pairs EXCEPT ![k] = [@ EXCEPT !.doc1 = pairs[k].doc2, !.doc2 = pairs[k].doc1,
                                   !.type1 = pairs[k].type2, !.type2 = pairs[k].type1,
                                   !.preview1 = pairs[k].preview2,
                                   !.preview2 = pairs[k].preview1]]

RECURSIVE InsertBySimilarity(_, _)
InsertBySimilarity(q, x) ==
    IF q = <<>> THEN <<x>>
    ELSE IF Head(q).similarity < x.similarity THEN <<x>> \o q
    ELSE <<Head(q)>> \o InsertBySimilarity(Tail(q), x)

RECURSIVE SortPairs(_)
\* similar_pairs.sort(key=similarity, reverse=True), line 252
SortPairs(q) ==
    IF q = <<>> THEN <<>>
    ELSE InsertBySimilarity(SortPairs(SubSeq(q, 1, Len(q) - 1)), q[Len(q)])

\* the order in which sorted() would iterate the documents
AscendingOrder(S) == CHOOSE q \in Perms(S) : \A a, b \in DOMAIN q : a < b => q[a] < q[b]

\* C4: the partition into member sets is the same for every permutation of
\* the pair list and for either way of writing an entry, and so for the list
\* sorted by similarity.  Stated for the steps that generate them: exchanging
\* two adjacent entries, turning one entry round (every such list is again a
\* state of SpecGroup, so the steps compose), and sorting by similarity.
C4_PartitionIndependentOfPairOrder ==
    pc = "returned" =>
        LET order == AscendingOrder(all_docs(similar_pairs))
        IN  /\ \A k \in 1..(Len(similar_pairs) - 1) :
                  MemberSets(group_similar_documents(SwapAdjacent(similar_pairs, k), order))
                      = MemberSets(clusters)
            /\ \A k \in 1..Len(similar_pairs) :
                  MemberSets(group_similar_documents(FlipEntry(similar_pairs, k), order))
                      = MemberSets(clusters)
            /\ MemberSets(group_similar_documents(SortPairs(similar_pairs), order))
                  = MemberSets(clusters)

\* a list whose sorted form is another list, whose entries join three
\* documents through a shared one
C4_Witness ==
    /\ pc = "returned"
    /\ WellFormedPairs(similar_pairs)
    /\ SortPairs(similar_pairs) # similar_pairs
    /\ Len(similar_pairs) >= 2
    /\ \E n \in DOMAIN clusters : clusters[n].size = 3

RECURSIVE Follow(_, _, _)
\* the document reached from x after n parent links
Follow(P, x, n) == IF n = 0 THEN x ELSE Follow(P, P[x], n - 1)

\* every parent link stays among the keys of the map
LinksInside(P) == \A x \in DOMAIN P : P[x] \in DOMAIN P

\* the document that the parent links lead to from x
RootOf(P, x) == Follow(P, x, Cardinality(DOMAIN P))

\* every document reaches a root (its own parent) by following parent links
IsForest(P) ==
    /\ LinksInside(P)
    /\ \A x \in DOMAIN P : P[RootOf(P, x)] = RootOf(P, x)

\* the documents that share the root of x
SetOf(P, x) == {y \in DOMAIN P : RootOf(P, y) = RootOf(P, x)}

SetsOf(P) == {SetOf(P, x) : x \in DOMAIN P}

\* the parent map when the first k retained pairs have been merged
ParentAfter(k) ==
    MergeAll([d \in all_docs(similar_pairs) |-> d], SubSeq(similar_pairs, 1, k), 1)

\* the parent map when find(x) has been called on P
Compressed(P, x) == find(P, x).parent

\* find(x) on the forest P returns the root of x and leaves a forest in
\* which every document has the root it had
FindKeepsRoots(P) ==
    \A x \in DOMAIN P :
        LET f == find(P, x)
        IN  /\ f.root = RootOf(P, x)
            /\ DOMAIN f.parent = DOMAIN P
            /\ IsForest(f.parent)
            /\ \A y \in DOMAIN P : RootOf(f.parent, y) = RootOf(P, y)

\* union(a, b) on the forest P leaves a forest whose sets are those of P
\* with the set of a and the set of b replaced by their union
UnionMergesTwoSets(P, a, b) ==
    LET Q == union(P, a, b)
    IN  /\ DOMAIN Q = DOMAIN P
        /\ IsForest(Q)
        /\ SetsOf(Q) = (SetsOf(P) \ {SetOf(P, a), SetOf(P, b)})
                          \cup {SetOf(P, a) \cup SetOf(P, b)}

\* the parent map P, reached by the unions of the first k retained pairs, is
\* a forest over the documents of the retained pairs on which find and the
\* next union behave as described
ForestStep(P, k) ==
    /\ DOMAIN P = all_docs(similar_pairs)
    /\ IsForest(P)
    /\ FindKeepsRoots(P)
    /\ k < Len(similar_pairs) =>
          UnionMergesTwoSets(P, similar_pairs[k + 1].doc1, similar_pairs[k + 1].doc2)

RECURSIVE CompressionsOf(_)
\* the parent maps that calls of find, in any number and on any documents,
\* make of the maps of the set R
CompressionsOf(R) ==
    LET calls_of_find == {<<M, x>> : M \in R, x \in all_docs(similar_pairs)}
        N == R \cup {Compressed(Q[1], Q[2]) : Q \in calls_of_find}
    IN  IF N = R THEN R ELSE CompressionsOf(N)

\* the finds of the cluster-building loop (lines 121-122), whatever the
\* order in which the documents are visited, leave forests with the sets of P
BuildLoopKeepsSets(P) ==
    \A Q \in CompressionsOf({P}) : IsForest(Q) /\ SetsOf(Q) = SetsOf(P)

\* C30: at every step of group_similar_documents the parent map is a forest
\* over the documents of the retained pairs, so find reaches a root and
\* looks up no missing key; find's path compression changes no document's
\* root, and union(a, b) merges exactly the sets of a and b and leaves the
\* other sets as they were.
C30_ParentMapIsForest ==
    pc = "returned" =>
        /\ \A k \in 0..Len(similar_pairs) : ForestStep(ParentAfter(k), k)
        /\ BuildLoopKeepsSets(ParentAfter(Len(similar_pairs)))

\* union(a, b) is called on a document a that is not a root, whose set holds
\* two or more documents and differs from the set of b
UnionOnLinkedDocument(P, a, b) ==
    /\ P[a] # a
    /\ Cardinality(SetOf(P, a)) >= 2
    /\ SetOf(P, a) # SetOf(P, b)

\* find compresses a path of two links in P
CompressesPath(P) ==
    \E x \in DOMAIN P :
        /\ P[x] # x
        /\ P[P[x]] # P[x]
        /\ LET f == find(P, x)
           IN  f.parent[x] = f.root /\ f.parent[x] # P[x]

\* a grouping in which a union was called on a document that was not a root
\* and a find compressed a path of two links
C30_Witness ==
    /\ pc = "returned"
    /\ \E k \in 1..(Len(similar_pairs) - 1) :
          UnionOnLinkedDocument(ParentAfter(k), similar_pairs[k + 1].doc1,
                                                similar_pairs[k + 1].doc2)
    /\ \E k \in 0..Len(similar_pairs) : CompressesPath(ParentAfter(k))

(***************************************************************************)
(* Specification SpecGroupWide: group_similar_documents applied to the     *)
(* lists find_similar_pairs can return for five documents (doc1 before     *)
(* doc2, no pair twice), in any order of the entries.                      *)
(***************************************************************************)
WideDocs == {1, 2, 3, 4, 5}

WideCorpus == [d \in WideDocs |-> [text |-> <<"a">>, type |-> "docx"]]

WideEntries ==
    { PairRecord(WideCorpus, ab[1], ab[2], GroupScore(ab[1], ab[2])) :
        ab \in {xy \in WideDocs \X WideDocs : xy[1] < xy[2]} }

InitGroupWide ==
    /\ pc = "group_similar_documents"
    /\ NoChunkCall
    /\ NoDocuments
    /\ similar_pairs \in UNION {[1..n -> WideEntries] : n \in 0..MaxPairs}
    /\ NoRepeatedPair(similar_pairs)
    /\ clusters = <<>>
    /\ NoMain

NextGroupWide == CallGroupSimilarDocuments

SpecGroupWide == InitGroupWide /\ [][NextGroupWide]_vars

(***************************************************************************)
(* Order and determinism of the clusters                                   *)
(***************************************************************************)
\* C17: the clusters come back by descending size and, among clusters of
\* equal size, by descending average similarity.
C17_ClustersBySizeThenAverage ==
    pc = "returned" =>
        \A n \in 1..(Len(clusters) - 1) :
            \/ clusters[n].size > clusters[n + 1].size
            \/ /\ clusters[n].size = clusters[n + 1].size
               /\ clusters[n].avg_similarity[1] * clusters[n + 1].avg_similarity[2]
                    >= clusters[n + 1].avg_similarity[1] * clusters[n].avg_similarity[2]

\* a cluster of three documents comes before a cluster of two whose
\* average similarity is higher
C17_Witness ==
    /\ pc = "returned"
    /\ Len(clusters) = 2
    /\ clusters[1].size = 3
    /\ clusters[2].size = 2
    /\ FracLess(clusters[1].avg_similarity, clusters[2].avg_similarity)

\* C18: the returned list is determined by the retained pairs alone: every
\* traversal order of the document set gives the list this run returned.
C18_OutputIndependentOfTraversalOrder ==
    pc = "returned" =>
        \A order \in Perms(all_docs(similar_pairs)) :
            group_similar_documents(similar_pairs, order) = clusters

(***************************************************************************)
(* Properties of find_similar_pairs (checked under SpecPairs)              *)
(***************************************************************************)
\* the two documents have an entry in the retained list, in either order
Retained(a, b) ==
    \E k \in 1..Len(similar_pairs) :
        {similar_pairs[k].doc1, similar_pairs[k].doc2} = {a, b}

\* the unordered pairs of distinct loaded documents
DocPairs ==
    {{doc_names[i], doc_names[j]} : i, j \in DOMAIN doc_names} \ {{d} : d \in Range(doc_names)}

TypeOf(d) == documents[d].type

\* the score of the two documents of pr: the largest cosine between a chunk
\* of one and a chunk of the other
ScoreOf(pr) ==
    LET a == CHOOSE x \in pr : TRUE
        b == CHOOSE y \in pr : y # a
        cosines == {Cosine(doc_embeddings[a][i], doc_embeddings[b][j]) :
                       i \in DOMAIN doc_embeddings[a], j \in DOMAIN doc_embeddings[b]}
    IN  CHOOSE c \in cosines : \A e \in cosines : e <= c

IsRetained(pr) == \E a, b \in pr : a # b /\ Retained(a, b)

\* C5: in mode all a pair of distinct documents is retained if and only if
\* its score is at or above the threshold (equal included), whatever the
\* types; the entry carries that score.
C5_AllModeRetainsIffAtOrAboveThreshold ==
    (pc = "returned" /\ mode = "all") =>
        /\ \A pr \in DocPairs : IsRetained(pr) <=> ScoreOf(pr) >= threshold
        /\ \A k \in 1..Len(similar_pairs) :
              similar_pairs[k].similarity =
                  ScoreOf({similar_pairs[k].doc1, similar_pairs[k].doc2})

\* mode all keeps a cross-type pair scoring exactly the threshold and
\* leaves out a pair scoring below it
C5_Witness ==
    /\ pc = "returned" /\ mode = "all"
    /\ \E k \in 1..Len(similar_pairs) :
          /\ similar_pairs[k].similarity = threshold
          /\ similar_pairs[k].type1 # similar_pairs[k].type2
    /\ \E pr \in DocPairs : ScoreOf(pr) < threshold /\ ~IsRetained(pr)

SameType(pr) == \A a, b \in pr : TypeOf(a) = TypeOf(b)

\* C6: in mode same_type a pair is retained if and only if the two documents
\* have the same type and score at or above the threshold; no retained pair
\* has type1 different from type2.
C6_SameTypeRetainsIffSameTypeAndScore ==
    (pc = "returned" /\ mode = "same_type") =>
        /\ \A pr \in DocPairs :
              IsRetained(pr) <=> (SameType(pr) /\ ScoreOf(pr) >= threshold)
        /\ \A k \in 1..Len(similar_pairs) :
              similar_pairs[k].type1 = similar_pairs[k].type2

\* mode same_type keeps a pair and leaves out a cross-type pair that scores
\* at or above the threshold
C6_Witness ==
    /\ pc = "returned" /\ mode = "same_type"
    /\ similar_pairs # <<>>
    /\ \E pr \in DocPairs :
          ~SameType(pr) /\ ScoreOf(pr) >= threshold /\ ~IsRetained(pr)

\* C7: in mode select with a supplied selection T every retained pair has
\* both types in T and two different types, for every T, the empty one
\* included (for which nothing is retained).
C7_SelectRetainsOnlySelectedCrossTypePairs ==
    (pc = "returned" /\ mode = "select" /\ selected_types # None) =>
        \A k \in 1..Len(similar_pairs) :
            /\ similar_pairs[k].type1 \in Range(selected_types)
            /\ similar_pairs[k].type2 \in Range(selected_types)
            /\ similar_pairs[k].type1 # similar_pairs[k].type2

UnorderedOf(pairSeq, k) == {pairSeq[k][1], pairSeq[k][2]}

\* C8: the loops visit every unordered pair of distinct documents exactly
\* once, C(N,2) visits in all, never a document with itself; the retained
\* list has no two entries for the same two documents and none with
\* doc1 = doc2.
C8_EachPairOnceNoSelfPairs ==
    pc = "returned" =>
        /\ 2 * Len(scanned) = Len(doc_names) * (Len(doc_names) - 1)
        /\ \A k \in 1..Len(scanned) : scanned[k][1] # scanned[k][2]
        /\ \A k, l \in 1..Len(scanned) :
              k # l => UnorderedOf(scanned, k) # UnorderedOf(scanned, l)
        /\ \A pr \in DocPairs : \E k \in 1..Len(scanned) : UnorderedOf(scanned, k) = pr
        /\ \A k \in 1..Len(similar_pairs) :
              similar_pairs[k].doc1 # similar_pairs[k].doc2
        /\ \A k, l \in 1..Len(similar_pairs) :
              k # l => {similar_pairs[k].doc1, similar_pairs[k].doc2}
                           # {similar_pairs[l].doc1, similar_pairs[l].doc2}

\* three documents, all three pairs visited and retained
C8_Witness ==
    /\ pc = "returned"
    /\ Len(doc_names) = 3
    /\ Len(scanned) = 3
    /\ Len(similar_pairs) = 3

\* the cosine of chunk i of document a and chunk j of document b
ChunkCosine(a, i, b, j) == Cosine(doc_embeddings[a][i], doc_embeddings[b][j])

\* s is an entry of the chunk-by-chunk matrix of a and b and no entry is larger
IsMatrixMaximum(s, a, b) ==
    /\ \A i \in DOMAIN doc_embeddings[a], j \in DOMAIN doc_embeddings[b] :
          s >= ChunkCosine(a, i, b, j)
    /\ \E i \in DOMAIN doc_embeddings[a], j \in DOMAIN doc_embeddings[b] :
          s = ChunkCosine(a, i, b, j)

\* C21: the score of every two documents the loops visit is the maximum
\* entry of the matrix of the cosines of their chunks: at least every
\* chunk-to-chunk cosine and equal to one of them; a retained entry carries
\* that score.
C21_ScoreIsMaximumChunkCosine ==
    pc = "returned" =>
        /\ \A k \in 1..Len(scanned) :
              IsMatrixMaximum(DocSimilarity(doc_embeddings, scanned[k][1], scanned[k][2]),
                              scanned[k][1], scanned[k][2])
        /\ \A k \in 1..Len(similar_pairs) :
              IsMatrixMaximum(similar_pairs[k].similarity,
                              similar_pairs[k].doc1, similar_pairs[k].doc2)

\* a retained pair of documents with several chunks whose score is above one
\* of their chunk cosines, the last entry of the matrix included
C21_Witness ==
    /\ pc = "returned"
    /\ \E k \in 1..Len(similar_pairs) :
          LET a == similar_pairs[k].doc1
              b == similar_pairs[k].doc2
          IN  /\ Len(doc_embeddings[a]) * Len(doc_embeddings[b]) >= 2
              /\ similar_pairs[k].similarity >
                    ChunkCosine(a, Len(doc_embeddings[a]), b, Len(doc_embeddings[b]))

\* C26: documents of type "unknown" take part in mode all like any other
\* document (a pair is retained there if and only if it scores at or above
\* the threshold), and in mode same_type no retained pair has type1 and type2
\* both "unknown".
C26_UnknownNeverSameTypePair ==
    pc = "returned" =>
        /\ mode = "all" =>
              \A pr \in DocPairs :
                 (\E d \in pr : TypeOf(d) = "unknown") =>
                    (IsRetained(pr) <=> ScoreOf(pr) >= threshold)
        /\ mode = "same_type" =>
              \A k \in 1..Len(similar_pairs) :
                 ~(similar_pairs[k].type1 = "unknown" /\ similar_pairs[k].type2 = "unknown")

(***************************************************************************)
(* find_similar_pairs over every enumeration order of the document mapping *)
(***************************************************************************)
\* the types of the corpus whose enumeration order varies
OrderTypes == {"docx", "pdf"}

\* the selection tried in mode select
OrderSelection == <<"docx", "pdf">>

\* list(doc_embeddings.keys()) (line 58) for every insertion order of the
\* mapping: all orderings of the names 1..n
OrderNameLists == UNION {Perms(1..n) : n \in 0..MaxDocs}

\* the types of the documents: all of one type, or the types alternating
\* with the name
OrderTypings(names) ==
    {[d \in names |-> "docx"],
     [d \in names |-> IF d % 2 = 1 THEN "docx" ELSE "pdf"]}

InitPairsOrder ==
    /\ pc = "find_similar_pairs"
    /\ NoChunkCall
    /\ doc_names \in OrderNameLists
    /\ \E ty \in OrderTypings(Range(doc_names)), co \in [Range(doc_names) -> Contents] :
          /\ documents = [d \in Range(doc_names) |-> [text |-> co[d].text, type |-> ty[d]]]
          /\ doc_embeddings = [d \in Range(doc_names) |-> co[d].emb]
    /\ threshold \in Thresholds
    /\ mode \in Modes
    /\ selected_types = (IF mode = "select" THEN OrderSelection ELSE None)
    /\ scanned = <<>>
    /\ similar_pairs = <<>>
    /\ clusters = <<>>
    /\ NoMain

NextPairsOrder == CallFindSimilarPairs

SpecPairsOrder == InitPairsOrder /\ [][NextPairsOrder]_vars

\* the retained unordered pairs of a result, each with its score
ScoredUnordered(pairSeq) ==
    {<<{pairSeq[k].doc1, pairSeq[k].doc2}, pairSeq[k].similarity>> :
        k \in 1..Len(pairSeq)}

\* C22: the score of two documents is the same whichever of the two is
\* enumerated first, and the retained unordered pairs with their scores are
\* those of the run over the same documents enumerated in ascending order,
\* hence the same for every ordering of the document mapping.
C22_SimilaritySymmetricAcrossOrderings ==
    pc = "returned" =>
        /\ \A a, b \in Range(doc_names) :
              a # b => DocSimilarity(doc_embeddings, a, b)
                          = DocSimilarity(doc_embeddings, b, a)
        /\ ScoredUnordered(similar_pairs)
              = ScoredUnordered(find_similar_pairs(doc_embeddings, documents,
                                    AscendingOrder(Range(doc_names)),
                                    threshold, mode, selected_types))

\* a run over three documents enumerated neither in ascending nor in
\* descending order that retains a pair whose first member is the larger
\* name and whose documents have different numbers of chunks
C22_Witness ==
    /\ pc = "returned"
    /\ Len(doc_names) = 3
    /\ doc_names[1] = 2
    /\ \E k \in 1..Len(similar_pairs) :
          /\ similar_pairs[k].doc1 > similar_pairs[k].doc2
          /\ Len(doc_embeddings[similar_pairs[k].doc1])
                # Len(doc_embeddings[similar_pairs[k].doc2])

\* the retained pairs of a result as (doc1, doc2)
OrderedOf(pairSeq) ==
    {<<pairSeq[k].doc1, pairSeq[k].doc2>> : k \in 1..Len(pairSeq)}

\* C27: the doc1/doc2 order inside every retained pair is determined by the
\* two names alone: the same documents loaded into the mapping in any other
\* order give the same (doc1, doc2) for every retained pair.
C27_PairOrderCanonical ==
    pc = "returned" =>
        \A other \in Perms(Range(doc_names)) :
            OrderedOf(similar_pairs)
               = OrderedOf(find_similar_pairs(doc_embeddings, documents, other,
                                              threshold, mode, selected_types))

(***************************************************************************)
(* main: the pieces of the run                                             *)
(***************************************************************************)
\* chunk_text(text, chunk_size=500, overlap=100): the defaults main uses
DefaultChunkSize == 500
DefaultOverlap == 100

\* An answer to the types prompt is a sequence of tokens: a type name, a
\* comma or a blank.
RECURSIVE SplitComma(_, _, _, _)
\* type_input.split(","): the pieces between the commas, at least one
SplitComma(s, i, cur, acc) ==
    IF i > Len(s) THEN Append(acc, cur)
    ELSE IF s[i] = ","
         THEN SplitComma(s, i + 1, <<>>, Append(acc, cur))
         ELSE SplitComma(s, i + 1, Append(cur, s[i]), acc)

RECURSIVE StripLeft(_)
StripLeft(p) == IF p # <<>> /\ IsSpace(Head(p)) THEN StripLeft(Tail(p)) ELSE p

RECURSIVE StripRight(_)
StripRight(p) ==
    IF p # <<>> /\ IsSpace(p[Len(p)]) THEN StripRight(SubSeq(p, 1, Len(p) - 1)) ELSE p

\* str.strip()
Strip(p) == StripLeft(StripRight(p))

\* the string a stripped piece is: "" for no token, the type name for one
\* token, and a string that is no type name for several ("docx pdf")
PieceString(p) ==
    IF p = <<>> THEN "" ELSE IF Len(p) = 1 THEN p[1] ELSE "no type"

RECURSIVE StripEach(_, _, _)
\* [t.strip() for t in pieces]
StripEach(pieces, k, acc) ==
    IF k > Len(pieces) THEN acc
    ELSE StripEach(pieces, k + 1, Append(acc, PieceString(Strip(pieces[k]))))

\* [t.strip() for t in input(...).strip().split(",")]
ParseTypes(answer) == StripEach(SplitComma(Strip(answer), 1, <<>>, <<>>), 1, <<>>)

\* the mode and selected_types of lines 209-224
ChosenMode(ch) == IF ch = "2" THEN "same_type" ELSE IF ch = "3" THEN "select" ELSE "all"

ChosenTypes(ch, answer) == IF ch = "3" THEN ParseTypes(answer) ELSE None

TooFewDocumentsMutNever(names) == FALSE

\* if len(documents) < 2: return
TooFewDocuments(names) == Len(names) < 2

\* the vector the embedding model gives a chunk
EmbedOf(chunk) ==
    IF chunk = <<"a">> THEN <<5, 0>>
    ELSE IF chunk = <<"a", "a">> THEN <<0, 5>>
    ELSE <<3, 4>>

\* a vector that belongs to no chunk of the document
StrayVector == <<0, 5>>

\* model.encode(chunks) of a provider that answers: one vector per chunk,
\* or ("extra") a list with one vector more than there are chunks
Encode(chs, fault) ==
    LET vecs == [k \in 1..Len(chs) |-> EmbedOf(chs[k])]
    IN  IF fault = "extra" THEN Append(vecs, StrayVector) ELSE vecs

EncodeCallsMutPerLookup(name) == << <<"encode", name>>, <<"encode", name>> >>

\* the provider calls of one pass of the loop of lines 237-241: one
\* model.encode(chunks) with the whole chunk list of the document
EncodeCalls(name) == << <<"encode", name>> >>

SortedPairsMutUnsorted(q) == q

\* lines 249-252: the retained pairs, highest similarity first
SortedPairs(q) == SortPairs(q)

RunsClusteringMutAlways(pairs) == TRUE

\* if similar_pairs: (lines 292 and 346)
RunsClustering(pairs) == pairs # <<>>

(***************************************************************************)
(* main: the report (lines 317-364)                                        *)
(***************************************************************************)
\* the step of round(x, 4): 0.0001
RoundStep == ScoreOne \div 10000

\* the integer nearest to a / b (b > 0, a >= 0), an exact half going to the
\* even neighbour; no score of the model is an exact half, which for the
\* floats of the program depends on their binary digits
RoundHalfEven(a, b) ==
    LET q == a \div b
        r == a % b
    IN  IF 2 * r < b THEN q
        ELSE IF 2 * r > b THEN q + 1
        ELSE IF q % 2 = 0 THEN q ELSE q + 1

\* round(x, 4) of the fraction x
Round4Frac(x) == RoundHalfEven(x[1], x[2] * RoundStep) * RoundStep

\* round(x, 4) of a score
Round4(x) == Round4Frac(<<x, 1>>)

PairLevelMutFromRounded(sim) ==
    IF Round4(sim) >= Pct(95) THEN "very_high"
    ELSE IF Round4(sim) >= Pct(85) THEN "high"
    ELSE IF Round4(sim) >= Pct(70) THEN "medium"
    ELSE "low"

\* lines 336-339
PairLevel(sim) ==
    IF sim >= Pct(95) THEN "very_high"
    ELSE IF sim >= Pct(85) THEN "high"
    ELSE IF sim >= Pct(70) THEN "medium"
    ELSE "low"

\* x >= p / 100 for the fraction x
FracAtLeast(x, p) == x[1] >= Pct(p) * x[2]

\* lines 353-355
ClusterLevel(avg) ==
    IF FracAtLeast(avg, 85) THEN "high"
    ELSE IF FracAtLeast(avg, 70) THEN "medium"
    ELSE "low"

EmptyDict == <<>>

\* metadata.get(name, {})
MetaGet(md, name) == IF name \in DOMAIN md THEN md[name] ELSE EmptyDict

PairDataMutScoreNeedsMetadata(pair, md) ==
    [doc1 |-> pair.doc1, doc2 |-> pair.doc2,
     type1 |-> pair.type1, type2 |-> pair.type2,
     similarity |-> IF pair.doc1 \in DOMAIN md THEN Round4(pair.similarity) ELSE 0,
     level |-> PairLevel(pair.similarity),
     cross_format |-> pair.type1 # pair.type2,
     doc1_metadata |-> MetaGet(md, pair.doc1),
     doc2_metadata |-> MetaGet(md, pair.doc2)]

\* lines 330-343
PairData(pair, md) ==
    [doc1 |-> pair.doc1, doc2 |-> pair.doc2,
     type1 |-> pair.type1, type2 |-> pair.type2,
     similarity |-> Round4(pair.similarity),
     level |-> PairLevel(pair.similarity),
     cross_format |-> pair.type1 # pair.type2,
     doc1_metadata |-> MetaGet(md, pair.doc1),
     doc2_metadata |-> MetaGet(md, pair.doc2)]

\* lines 358-363
MemberData(member, docs, md) ==
    [filename |-> member, type |-> docs[member].type, metadata |-> MetaGet(md, member)]

\* lines 348-363
ClusterData(i, cluster, docs, md) ==
    [cluster_id |-> i,
     size |-> cluster.size,
     avg_similarity |-> Round4Frac(cluster.avg_similarity),
     max_similarity |-> Round4(cluster.max_similarity),
     level |-> ClusterLevel(cluster.avg_similarity),
     members |-> [k \in 1..Len(cluster.members) |->
                     MemberData(cluster.members[k], docs, md)]]

\* lines 318-364: the results dict
BuildReport(thr, m, sel, docs, md, pairs, cl) ==
    [settings |-> [threshold |-> thr, mode |-> m, selected_types |-> sel,
                   total_documents |-> Cardinality(DOMAIN docs)],
     pairs |-> [k \in 1..Len(pairs) |-> PairData(pairs[k], md)],
     clusters |-> IF RunsClustering(pairs)
                  THEN [i \in 1..Len(cl) |-> ClusterData(i, cl[i], docs, md)]
                  ELSE <<>>]

(***************************************************************************)
(* Specification SpecMain: one run of main().  pc is the position in main: *)
(* "main" (line 159), "choose_mode" (193), "load_model" (226), "embed"     *)
(* (237), "cluster" (291), "export" (317); the run ends as "done" (a       *)
(* return) or "aborted" (an exception leaves main).                        *)
(***************************************************************************)
MainTypes == {"docx", "pdf"}

\* the .txt files a folder can hold
MainFiles ==
    { [text |-> <<"a">>, type |-> "docx"],
      [text |-> <<"a">>, type |-> "pdf"],
      [text |-> <<"a", "a">>, type |-> "pdf"],
      [text |-> <<"a", " ", "a">>, type |-> "docx"] }

\* the folder extracted_text: missing, or its files in listing order
Folders ==
    {NoFolder} \cup
    UNION {{[exists |-> TRUE, names |-> [k \in 1..n |-> k], docs |-> fs] :
                fs \in [1..n -> MainFiles]} : n \in 0..MaxDocs}

\* metadata.json: missing (main keeps {}), or an entry for document 1
MetadataFiles == {EmptyDict, [d \in {1} |-> [author |-> "ann"]]}

Choices == {"1", "2", "3"}

\* answers to the types prompt
TypeInputs ==
    {<<>>, <<"docx", ",", " ", "pdf">>, <<"pdf", ",", "docx", ",", "unknown">>}

\* the provider answers every call, or fails or returns one vector too
\* many for one document
Providers(folder) ==
    {[fault |-> "ok", doc |-> 0]} \cup
    (IF ~folder.exists THEN {}
     ELSE {[fault |-> f, doc |-> d] : f \in {"fails", "extra"}, d \in Range(folder.names)})

InitMain ==
    /\ pc = "main"
    /\ NoChunkCall
    /\ NoDocuments
    /\ similar_pairs = <<>>
    /\ clusters = <<>>
    /\ extracted \in Folders
    /\ metadata \in MetadataFiles
    /\ choice \in Choices
    /\ type_input \in (IF choice = "3" THEN TypeInputs ELSE {<<>>})
    /\ provider \in Providers(extracted)
    /\ doc_chunks = <<>>
    /\ calls = <<>>
    /\ report = None

\* dict[key] = value
DictSet(dict, key, value) ==
    [k \in DOMAIN dict \cup {key} |-> IF k = key THEN value ELSE dict[k]]

\* lines 159-191: the folder check, the loading and the size check
MainLoad ==
    /\ pc = "main"
    /\ IF ~extracted.exists
       THEN /\ pc' = "done"
            /\ UNCHANGED <<doc_names, documents, calls>>
       ELSE /\ doc_names' = extracted.names
            /\ documents' = extracted.docs
            /\ calls' = Append(calls, <<"load_all_documents", 0>>)
            /\ pc' = IF TooFewDocuments(extracted.names) THEN "done" ELSE "choose_mode"
    /\ UNCHANGED <<chunkVars, doc_embeddings, threshold, mode, selected_types, scanned,
                   similar_pairs, clusters, extracted, metadata, choice, type_input,
                   provider, doc_chunks, report>>

\* lines 193-224
MainChooseMode ==
    /\ pc = "choose_mode"
    /\ mode' = ChosenMode(choice)
    /\ selected_types' = ChosenTypes(choice, type_input)
    /\ pc' = "load_model"
    /\ UNCHANGED <<chunkVars, doc_names, documents, doc_embeddings, threshold, scanned,
                   similar_pairs, clusters, mainVars>>

\* lines 226-235
MainLoadModel ==
    /\ pc = "load_model"
    /\ calls' = Append(calls, <<"SentenceTransformer", 0>>)
    /\ pc' = "embed"
    /\ UNCHANGED <<chunkVars, docVars, scanned, similar_pairs, clusters, extracted,
                   metadata, choice, type_input, provider, doc_chunks, report>>

\* lines 237-241, one document: its chunks and their vectors; an exception of
\* the provider leaves main
MainEmbed ==
    /\ pc = "embed"
    /\ LET name == doc_names[Cardinality(DOMAIN doc_chunks) + 1]
           chs == chunk_text(documents[name].text, DefaultChunkSize, DefaultOverlap)
           fault == IF provider.doc = name THEN provider.fault ELSE "ok"
       IN  /\ doc_chunks' = DictSet(doc_chunks, name, chs)
           /\ calls' = calls \o EncodeCalls(name)
           /\ IF fault = "fails"
              THEN /\ pc' = "aborted"
                   /\ UNCHANGED doc_embeddings
              ELSE /\ doc_embeddings' = DictSet(doc_embeddings, name, Encode(chs, fault))
                   /\ pc' = IF Cardinality(DOMAIN doc_chunks) + 1 = Len(doc_names)
                            THEN "find_pairs" ELSE "embed"
    /\ UNCHANGED <<chunkVars, doc_names, documents, threshold, mode, selected_types,
                   scanned, similar_pairs, clusters, extracted, metadata, choice,
                   type_input, provider, report>>

\* lines 245-252: the scan and the sort
MainFindPairs ==
    /\ pc = "find_pairs"
    /\ threshold' = Pct(60)
    /\ LET done == ScanAll(doc_embeddings, documents, doc_names,
                            Pct(60), mode, selected_types)
       IN  /\ scanned' = done.scanned
           /\ similar_pairs' = SortedPairs(done.pairs)
    /\ documents' = DocumentsAfterScan(documents)
    /\ doc_embeddings' = EmbeddingsAfterScan(doc_embeddings)
    /\ calls' = Append(calls, <<"find_similar_pairs", 0>>)
    /\ pc' = "cluster"
    /\ UNCHANGED <<chunkVars, doc_names, mode, selected_types,
                   clusters, extracted, metadata, choice, type_input, provider,
                   doc_chunks, report>>

\* lines 291-293
MainCluster ==
    /\ pc = "cluster"
    /\ IF RunsClustering(similar_pairs)
       THEN /\ \E order \in Perms(all_docs(similar_pairs)) :
                  clusters' = group_similar_documents(similar_pairs, order)
            /\ similar_pairs' = PairsAfterGrouping(similar_pairs)
            /\ calls' = Append(calls, <<"group_similar_documents", 0>>)
       ELSE UNCHANGED <<clusters, similar_pairs, calls>>
    /\ pc' = "export"
    /\ UNCHANGED <<chunkVars, docVars, scanned, extracted, metadata,
                   choice, type_input, provider, doc_chunks, report>>

\* lines 317-368: the results dict, written to results.json
MainExport ==
    /\ pc = "export"
    /\ report' = BuildReport(threshold, mode, selected_types, documents, metadata,
                             similar_pairs, clusters)
    /\ calls' = Append(calls, <<"json.dump", 0>>)
    /\ pc' = "done"
    /\ UNCHANGED <<chunkVars, docVars, scanned, similar_pairs, clusters, extracted,
                   metadata, choice, type_input, provider, doc_chunks>>

NextMain ==
    \/ MainLoad
    \/ MainChooseMode
    \/ MainLoadModel
    \/ MainEmbed
    \/ MainFindPairs
    \/ MainCluster
    \/ MainExport

SpecMain == InitMain /\ [][NextMain]_vars

(***************************************************************************)
(* Properties of main (checked under SpecMain)                             *)
(***************************************************************************)
\* the stage has been invoked in this run
Invoked(stage) == \E k \in 1..Len(calls) : calls[k][1] = stage

\* the embedding provider has been used: the model loaded or a text encoded
ProviderInvoked == Invoked("SentenceTransformer") \/ Invoked("encode")

\* results.json has been written
ReportWritten == Invoked("json.dump")

\* C12: with fewer than 2 loaded documents the run ends at once: the
\* provider is never invoked, no pair is scored, no report is written.
C12_FewerThanTwoDocumentsRefuses ==
    (pc # "main" /\ extracted.exists /\ Len(extracted.names) < 2) =>
        /\ pc = "done"
        /\ ~ProviderInvoked
        /\ ~Invoked("find_similar_pairs")
        /\ scanned = <<>>
        /\ similar_pairs = <<>>
        /\ ~ReportWritten

\* a run on a folder with one document has ended
C12_Witness ==
    /\ pc = "done"
    /\ Len(doc_names) = 1
    /\ Invoked("load_all_documents")
    /\ ~ReportWritten

\* the types of the loaded documents
LoadedTypes == {documents[d].type : d \in Range(doc_names)}

\* C13: in select mode with a selection naming a type that no loaded
\* document has, the run refuses: no pair is scored, no report is written.
C13_SelectionWithMemberlessTypeRefuses ==
    (mode = "select" /\ ~(Range(selected_types) \subseteq LoadedTypes)) =>
        /\ ~Invoked("find_similar_pairs")
        /\ similar_pairs = <<>>
        /\ ~ReportWritten

\* the provider's call for document d failed, or gave a number of vectors
\* other than the number of chunks of d
ProviderFaulted(d) ==
    \/ d \notin DOMAIN doc_embeddings
    \/ Len(doc_embeddings[d]) # Len(doc_chunks[d])

\* C14: once the provider has failed for a document, or returned a number of
\* vectors different from the document's number of chunks, the run is
\* aborted: nothing is scored from those vectors and no report is written.
C14_ProviderFaultAbortsWithoutReport ==
    (\E d \in DOMAIN doc_chunks : ProviderFaulted(d)) =>
        /\ pc = "aborted"
        /\ ~Invoked("find_similar_pairs")
        /\ ~ReportWritten

\* the tier of the fraction x by the breakpoints 0.95, 0.85 and 0.7
TierOf(x) ==
    IF x[1] * 100 >= 95 * ScoreOne * x[2] THEN "very_high"
    ELSE IF x[1] * 100 >= 85 * ScoreOne * x[2] THEN "high"
    ELSE IF x[1] * 100 >= 70 * ScoreOne * x[2] THEN "medium"
    ELSE "low"

\* C15: every cluster of the report carries the tier of its average
\* similarity by the breakpoints used for pairs: very_high from 0.95, high
\* from 0.85, medium from 0.7, low below.
C15_ClusterLevelUsesPairBreakpoints ==
    ReportWritten =>
        /\ Len(report.clusters) = Len(clusters)
        /\ \A i \in 1..Len(report.clusters) :
              report.clusters[i].level = TierOf(clusters[i].avg_similarity)

\* the similarities of the list never increase from one entry to the next
NonIncreasing(q) ==
    \A k \in 1..(Len(q) - 1) : q[k].similarity >= q[k + 1].similarity

\* C19: the list handed to clustering and the pairs of the report are in
\* non-increasing order of similarity; the report lists the pairs in the
\* order of that list.
C19_PairsInNonIncreasingOrder ==
    /\ pc \in {"cluster", "export"} => NonIncreasing(similar_pairs)
    /\ ReportWritten =>
          /\ NonIncreasing(similar_pairs)
          /\ NonIncreasing(report.pairs)
          /\ Len(report.pairs) = Len(similar_pairs)
          /\ \A k \in 1..Len(report.pairs) :
                /\ report.pairs[k].doc1 = similar_pairs[k].doc1
                /\ report.pairs[k].doc2 = similar_pairs[k].doc2

\* a report of pairs with different scores that find_similar_pairs had
\* returned in another order
C19_Witness ==
    /\ ReportWritten
    /\ Invoked("group_similar_documents")
    /\ Len(report.pairs) >= 2
    /\ report.pairs[1].similarity > report.pairs[Len(report.pairs)].similarity
    /\ find_similar_pairs(doc_embeddings, documents, doc_names,
                          threshold, mode, selected_types) # similar_pairs

\* every pair of loaded documents scores below the threshold
AllBelowThreshold == \A pr \in DocPairs : ScoreOf(pr) < threshold

\* C20: when every pair scores below the threshold the run does not fail
\* and does not run the clustering, and the report it writes has no pairs,
\* no clusters and the settings of the run.
C20_NothingRetainedGivesEmptyReport ==
    (Invoked("find_similar_pairs") /\ AllBelowThreshold) =>
        /\ pc \in {"cluster", "export", "done"}
        /\ similar_pairs = <<>>
        /\ ~Invoked("group_similar_documents")
        /\ pc = "done" =>
              /\ ReportWritten
              /\ Len(report.pairs) = 0
              /\ Len(report.clusters) = 0
              /\ report.settings.threshold = threshold
              /\ report.settings.mode = mode
              /\ report.settings.selected_types = selected_types
              /\ report.settings.total_documents = Len(doc_names)

\* a finished run on at least two documents none of whose pairs reaches the
\* threshold
C20_Witness ==
    /\ pc = "done"
    /\ ReportWritten
    /\ Len(doc_names) >= 2
    /\ mode = "all"
    /\ AllBelowThreshold
    /\ Len(report.pairs) = 0

\* a report with its three kinds of metadata field blanked
StripMetadata(rep) ==
    [settings |-> rep.settings,
     pairs |-> [k \in 1..Len(rep.pairs) |->
                  [rep.pairs[k] EXCEPT !.doc1_metadata = EmptyDict,
                                       !.doc2_metadata = EmptyDict]],
     clusters |-> [i \in 1..Len(rep.clusters) |->
                     [rep.clusters[i] EXCEPT !.members =
                        [k \in 1..Len(rep.clusters[i].members) |->
                           [rep.clusters[i].members[k] EXCEPT !.metadata = EmptyDict]]]]]

\* C23: the metadata mapping is not consulted for similarity or clustering:
\* the retained pairs and the clusters of a finished run are those computed
\* from the documents, their embeddings and the mode alone, and the report of
\* the run with any other metadata mapping differs from the written one in
\* nothing but doc1_metadata, doc2_metadata and the members' metadata.
C23_MetadataOnlyInMetadataFields ==
    ReportWritten =>
        /\ similar_pairs = SortedPairs(find_similar_pairs(doc_embeddings, documents,
                               doc_names, Pct(60), mode, selected_types))
        /\ IF RunsClustering(similar_pairs)
           THEN \E order \in Perms(all_docs(similar_pairs)) :
                   clusters = group_similar_documents(similar_pairs, order)
           ELSE Len(clusters) = 0
        /\ \A md \in MetadataFiles :
              StripMetadata(report)
                 = StripMetadata(BuildReport(Pct(60), mode, selected_types, documents,
                                             md, similar_pairs, clusters))

\* a written report of a run whose metadata mapping knows one member of a
\* retained pair and not the other, with a cluster reported
C23_Witness ==
    /\ ReportWritten
    /\ Len(clusters) >= 1
    /\ \E k \in 1..Len(similar_pairs) :
          /\ similar_pairs[k].doc1 \in DOMAIN metadata
          /\ similar_pairs[k].doc2 \notin DOMAIN metadata
    /\ \E k \in 1..Len(similar_pairs) :
          similar_pairs[k].doc1 \notin DOMAIN metadata

\* the positions of the log at which the provider embeds document d
EncodingsOf(d) == {k \in DOMAIN calls : calls[k] = <<"encode", d>>}

\* C24: in one run the provider is invoked at most once per document, with
\* the whole chunk list of that document, and no document is embedded once
\* the pair scan or the clustering has been entered.
C24_ProviderAtMostOncePerDocument ==
    /\ \A d \in Range(doc_names) : Cardinality(EncodingsOf(d)) <= 1
    /\ \A d \in DOMAIN doc_embeddings :
          /\ Cardinality(EncodingsOf(d)) = 1
          /\ d \in DOMAIN doc_chunks
          /\ doc_chunks[d] = chunk_text(documents[d].text, DefaultChunkSize, DefaultOverlap)
    /\ \A k, l \in DOMAIN calls :
          (k < l /\ calls[k][1] \in {"find_similar_pairs", "group_similar_documents"})
             => calls[l][1] # "encode"

\* a finished run over three documents with the scan and the clustering
\* entered and each document embedded exactly once
C24_Witness ==
    /\ pc = "done"
    /\ ReportWritten
    /\ Len(doc_names) = 3
    /\ Invoked("find_similar_pairs")
    /\ Invoked("group_similar_documents")
    /\ \A d \in Range(doc_names) : Cardinality(EncodingsOf(d)) = 1

\* the step of main that calls find_similar_pairs changes neither the
\* documents nor the embeddings nor the list of names
ScanLeavesDocuments ==
    pc = "find_pairs" =>
        /\ documents' = documents
        /\ doc_embeddings' = doc_embeddings
        /\ doc_names' = doc_names

\* the step of main that calls group_similar_documents changes neither the
\* retained pairs nor the documents nor the embeddings
GroupingLeavesPairs ==
    pc = "cluster" =>
        /\ similar_pairs' = similar_pairs
        /\ documents' = documents
        /\ doc_embeddings' = doc_embeddings
        /\ doc_names' = doc_names

\* C28: documents are immutable after loading and pairs are read-only:
\* find_similar_pairs leaves the documents mapping and the embeddings as
\* they were, group_similar_documents leaves the retained-pair list as it
\* was (same pairs, same order, same fields), and no step after the loading
\* adds, removes or alters a document.
C28_StagesLeaveTheirInputsUnchanged ==
    [][/\ ScanLeavesDocuments
       /\ GroupingLeavesPairs
       /\ pc # "main" => documents' = documents]_vars

\* the clustering has run on two or more retained pairs and the documents
\* are still the loaded files, each with its embedding
C28_Witness ==
    /\ Invoked("find_similar_pairs")
    /\ Invoked("group_similar_documents")
    /\ Len(similar_pairs) >= 2
    /\ Len(clusters) >= 1
    /\ documents = extracted.docs
    /\ DOMAIN doc_embeddings = Range(doc_names)

ReportDocs == {1, 2, 3}

\* scores at a breakpoint and just below it (0.69996 is written as 0.7)
ReportScores ==
    {Pct(60), Pct(70) - 4, Pct(70), Pct(85) - 4, Pct(85), Pct(95) - 4, Pct(95), ScoreOne}

ReportCorpora == [ReportDocs -> {[text |-> <<"a">>, type |-> t] : t \in MainTypes}]

\* the entries find_similar_pairs can retain for the corpus: doc1 before doc2
ReportEntries(corpus) ==
    { PairRecord(corpus, ab[1], ab[2], sc) :
        ab \in {xy \in ReportDocs \X ReportDocs : xy[1] < xy[2]}, sc \in ReportScores }

InitReport ==
    /\ pc = "cluster"
    /\ NoChunkCall
    /\ doc_names = <<1, 2, 3>>
    /\ documents \in ReportCorpora
    /\ doc_embeddings = <<>>
    /\ threshold \in Thresholds
    /\ mode = "all"
    /\ selected_types = None
    /\ scanned = <<<<1, 2>>, <<1, 3>>, <<2, 3>>>>
    /\ similar_pairs \in UNION {[1..n -> ReportEntries(documents)] : n \in 0..MaxPairs}
    /\ WellFormedPairs(similar_pairs)
    /\ SortedPairs(similar_pairs) = similar_pairs
    /\ clusters = <<>>
    /\ extracted = [exists |-> TRUE, names |-> doc_names, docs |-> documents]
    /\ metadata \in MetadataFiles
    /\ choice = "1"
    /\ type_input = <<>>
    /\ provider = [fault |-> "ok", doc |-> 0]
    /\ doc_chunks = [d \in ReportDocs |-> <<documents[d].text>>]
    /\ calls = <<<<"load_all_documents", 0>>, <<"SentenceTransformer", 0>>,
                 <<"encode", 1>>, <<"encode", 2>>, <<"encode", 3>>,
                 <<"find_similar_pairs", 0>>>>
    /\ report = None

NextReport == MainCluster \/ MainExport

SpecReport == InitReport /\ [][NextReport]_vars

(***************************************************************************)
(* Properties of the report (checked under SpecReport)                     *)
(***************************************************************************)
\* C16: every pair of the report carries one level, that of its unrounded
\* similarity with inclusive lower bounds: very_high from 0.95, else high
\* from 0.85, else medium from 0.7, else low.
C16_PairLevelFromUnroundedSimilarity ==
    ReportWritten =>
        /\ Len(report.pairs) = Len(similar_pairs)
        /\ \A k \in 1..Len(report.pairs) :
              /\ report.pairs[k].level = TierOf(<<similar_pairs[k].similarity, 1>>)
              /\ report.pairs[k].level \in {"very_high", "high", "medium", "low"}

\* a report with a pair of exactly 0.95 (very_high) and a pair just below,
\* written as 0.95 and labelled high
C16_Witness ==
    /\ ReportWritten
    /\ \E k \in 1..Len(report.pairs) :
          /\ similar_pairs[k].similarity = Pct(95)
          /\ report.pairs[k].level = "very_high"
    /\ \E k \in 1..Len(report.pairs) :
          /\ similar_pairs[k].similarity < Pct(95)
          /\ report.pairs[k].similarity = Pct(95)
          /\ report.pairs[k].level = "high"

====
